---- MODULE Spec2Model ----
(***************************************************************************)
(* A model of src/git.rs: GitRepository::open, get_commit, random_commit   *)
(* and extract_metadata over a small on-disk object database.              *)
(*                                                                         *)
(* Scaling.  An object id is one byte of two base-3 "nibbles" instead of   *)
(* twenty bytes of two hexadecimal nibbles, so that the string form of an  *)
(* id has two digits and an abbreviated hash has one.  Author times are    *)
(* small integers and chrono's representable range is ChronoRange.         *)
(*                                                                         *)
(* Library failures.  Every fallible library call of random_commit may     *)
(* fail on its own: creating the walk, an item of the walk, a lookup       *)
(* inside the filter, the lookup of the chosen commit.  A walk yields one  *)
(* item, Ok or Err, for each commit reachable from HEAD.  push_head fails  *)
(* when HEAD is unborn; revparse_single and peel_to_commit fail only for   *)
(* what the object database holds.                                         *)
(***************************************************************************)
EXTENDS Integers, Sequences, FiniteSets, TLC

VARIABLES
    objects,            \* the object database: oid -> object
    head,               \* the commit HEAD points to, or NoHead (unborn)
    accessor,           \* "none" | "open": whether a GitRepository exists
    call,               \* the last operation called and its argument
    result,             \* what that call returned: Ok(metadata) or Err
    non_merge_commits,  \* random_commit's local Vec<Oid> of the last call
    faults              \* the library failures that happened in that call

vars == <<objects, head, accessor, call, result, non_merge_commits, faults>>

----------------------------------------------------------------------------
(* Bounds *)

\* number of objects in the object database
NObj == 3

\* library failures (walk items, lookups, allocation) injected per call
MaxFaults == 2

----------------------------------------------------------------------------
(* Values *)

HexDigits == <<"0", "1", "2">>
Base == Len(HexDigits)

\* the oid of the i-th object written to the database
OidAt(i) == 2 * i
Oids == {OidAt(i) : i \in 0..(NObj - 1)}
NoHead == -1

Whitespace == {" ", "\n", "\t"}

SomeStr(s) == [some |-> TRUE, val |-> s]
NoneStr == [some |-> FALSE, val |-> ""]
SomeSeq(s) == [some |-> TRUE, val |-> s]
NoneSeq == [some |-> FALSE, val |-> <<>>]

\* seconds that chrono can represent as a DateTime
ChronoRange == (-8)..8
\* readings of the wall clock
NowValues == {20, 21}

\* what a commit object stores: signature name, signature time, message
Profiles == <<
    [name |-> SomeStr("Alice"), when |-> 5,
     message |-> SomeSeq(<<" ", " ", "F", "i", "x", " ", "b", "u", "g", " ", " ", "\n">>)],
    [name |-> NoneStr, when |-> 99, message |-> SomeSeq(<<"\t", "a", " ", "b", "\n">>)],
    [name |-> SomeStr("Bob"), when |-> -3, message |-> NoneSeq],
    [name |-> NoneStr, when |-> -99, message |-> SomeSeq(<<" ", "\n">>)] >>

ProfileOf(i) == Profiles[(i % Len(Profiles)) + 1]

CommitObject(i, ps) ==
    [kind |-> "commit", parents |-> ps, target |-> NoHead,
     name |-> ProfileOf(i).name, when |-> ProfileOf(i).when,
     message |-> ProfileOf(i).message]
TagObject(t) ==
    [kind |-> "tag", parents |-> {}, target |-> t,
     name |-> NoneStr, when |-> 0, message |-> NoneSeq]
TreeObject ==
    [kind |-> "tree", parents |-> {}, target |-> NoHead,
     name |-> NoneStr, when |-> 0, message |-> NoneSeq]

\* the objects the i-th write can add to a database db of earlier objects
ObjectsAt(i, lower) ==
    {TreeObject} \cup {TagObject(t) : t \in lower} \cup
    {CommitObject(i, ps) : ps \in SUBSET lower}

\* well-formed databases: parents are earlier commits, tags point to earlier objects
WellFormed(db) ==
    \A o \in Oids :
        /\ db[o].kind = "commit" =>
              \A p \in db[o].parents : p < o /\ db[p].kind = "commit"
        /\ db[o].kind = "tag" => db[o].target < o

Databases ==
    {db \in [Oids -> UNION {ObjectsAt(i, {OidAt(j) : j \in 0..(i - 1)}) : i \in 0..(NObj - 1)}] :
        /\ \A i \in 0..(NObj - 1) :
              db[OidAt(i)] \in ObjectsAt(i, {OidAt(j) : j \in 0..(i - 1)})
        /\ WellFormed(db)}

Heads(db) == {NoHead} \cup {o \in Oids : db[o].kind = "commit"}

----------------------------------------------------------------------------
(* Results: anyhow::Result<CommitMetadata> *)

NoContext == ""
NoCause == "none"
LibraryError == "git2::Error"

NoMeta ==
    [hash |-> <<>>, author |-> "", date |-> [secs |-> 0, nanos |-> 0], message |-> <<>>]

Ok(meta) ==
    [ok |-> TRUE, kind |-> "Ok", context |-> NoContext, cause |-> NoCause, meta |-> meta]

\* an error: the stage that failed, the context message attached to it (NoContext
\* when the library error is returned as it is) and the underlying library error
Err(kind, context, cause) ==
    [ok |-> FALSE, kind |-> kind, context |-> context, cause |-> cause, meta |-> NoMeta]

NoResult == [ok |-> FALSE, kind |-> "NotCalled", context |-> NoContext, cause |-> NoCause, meta |-> NoMeta]

NoFaults == [revwalk |-> FALSE, walk |-> {}, lookup |-> {}, final |-> FALSE]

----------------------------------------------------------------------------
(* The repository library, as the program uses it *)

RepoPaths == {"/repo", "/repo/src"}
Paths == RepoPaths \cup {"/tmp"}

\* Repository::open(path)
RepositoryOpen(path) == path \in RepoPaths

\* Oid -> String (Display for Oid): the two nibbles of the byte, most significant first
OidToString(oid) == <<HexDigits[(oid \div Base) + 1], HexDigits[(oid % Base) + 1]>>

IsPrefix(p, s) == Len(p) <= Len(s) /\ SubSeq(s, 1, Len(p)) = p

HeadSpec == <<"H", "E", "A", "D">>
HexStrings == UNION {[1..n -> {HexDigits[d] : d \in 1..Base}] : n \in 1..2}
Specifiers == HexStrings \cup {HeadSpec, <<"z">>}

\* revparse_single: HEAD, or a full or abbreviated hash naming exactly one object
RevparseSingle(db, hd, spec) ==
    IF spec = HeadSpec
    THEN [ok |-> hd # NoHead, oid |-> hd]
    ELSE IF spec \in HexStrings
    THEN LET m == {o \in Oids : IsPrefix(spec, OidToString(o))}
         IN  IF Cardinality(m) = 1
             THEN [ok |-> TRUE, oid |-> CHOOSE o \in m : TRUE]
             ELSE [ok |-> FALSE, oid |-> NoHead]
    ELSE [ok |-> FALSE, oid |-> NoHead]

\* Object::peel_to_commit: follow tags down to a commit
RECURSIVE PeelToCommit(_, _)
PeelToCommit(db, oid) ==
    IF db[oid].kind = "commit" THEN [ok |-> TRUE, oid |-> oid]
    ELSE IF db[oid].kind = "tag" THEN PeelToCommit(db, db[oid].target)
    ELSE [ok |-> FALSE, oid |-> NoHead]

\* Commit::parent_count
ParentCount(db, oid) == Cardinality(db[oid].parents)

\* the commits a walk pushed at hd visits
RECURSIVE Ancestors(_, _)
Ancestors(db, oid) ==
    {oid} \cup UNION {Ancestors(db, p) : p \in db[oid].parents}

RECURSIVE Descending(_)
Descending(S) ==
    IF S = {} THEN <<>>
    ELSE LET m == CHOOSE x \in S : \A y \in S : y <= x
         IN  <<m>> \o Descending(S \ {m})

\* Revwalk as an iterator of Result<Oid>: children before parents; the items
\* in f.walk come out as Err
Revwalk(db, hd, f) ==
    LET order == Descending(Ancestors(db, hd))
    IN  [i \in 1..Len(order) |-> [ok |-> order[i] \notin f.walk, oid |-> order[i]]]

\* DateTime::from_timestamp(secs, 0)
FromTimestamp(secs) ==
    IF secs \in ChronoRange
    THEN [some |-> TRUE, val |-> [secs |-> secs, nanos |-> 0]]
    ELSE [some |-> FALSE, val |-> [secs |-> 0, nanos |-> 0]]

\* str::trim
RECURSIVE TrimStart(_)
TrimStart(s) ==
    IF s = <<>> \/ Head(s) \notin Whitespace THEN s ELSE TrimStart(Tail(s))

RECURSIVE TrimEnd(_)
TrimEnd(s) ==
    IF s = <<>> \/ s[Len(s)] \notin Whitespace THEN s
    ELSE TrimEnd(SubSeq(s, 1, Len(s) - 1))

Trim(s) == TrimEnd(TrimStart(s))

----------------------------------------------------------------------------
(* extract_metadata *)

ExtractHash(oid) == OidToString(oid)

ExtractAuthor(commit) ==
    IF commit.name.some THEN commit.name.val ELSE "Unknown"

ExtractDate(commit, now) ==
    LET d == FromTimestamp(commit.when)
    IN  IF d.some THEN d.val ELSE [secs |-> now, nanos |-> 0]

\* trim_end in place of trim
ExtractMessage_TrimEndOnly(commit) ==
    TrimEnd(IF commit.message.some THEN commit.message.val ELSE <<>>)

ExtractMessage(commit) ==
    Trim(IF commit.message.some THEN commit.message.val ELSE <<>>)

extract_metadata(db, oid, now) ==
    [hash |-> ExtractHash(oid),
     author |-> ExtractAuthor(db[oid]),
     date |-> ExtractDate(db[oid], now),
     message |-> ExtractMessage(db[oid])]

----------------------------------------------------------------------------
(* open *)

OpenContext == "Failed to open Git repository"

open(path) ==
    IF ~RepositoryOpen(path)
    THEN Err("RepositoryOpenError", OpenContext, LibraryError)
    ELSE Ok(NoMeta)

----------------------------------------------------------------------------
(* get_commit *)

\* the peel's message pasted onto the resolution step
RevparseContext_Pasted == "Object is not a commit"

RevparseContext == "Invalid commit hash or commit not found"
PeelContext == "Object is not a commit"

\* extracting from the resolved object without following its tags
PeeledCommit_NoPeel(db, obj) == [ok |-> PeelToCommit(db, obj).ok, oid |-> obj]

\* line 31-33: the commit whose metadata get_commit extracts, given the object
\* obj the specifier resolved to
PeeledCommit(db, obj) == PeelToCommit(db, obj)

get_commit(db, hd, hash, now) ==
    LET obj == RevparseSingle(db, hd, hash)
    IN  IF ~obj.ok
        THEN Err("CommitResolutionError", RevparseContext, LibraryError)
        ELSE LET commit == PeeledCommit(db, obj.oid)
             IN  IF ~commit.ok
                 THEN Err("NotACommitError", PeelContext, LibraryError)
                 ELSE Ok(extract_metadata(db, commit.oid, now))

----------------------------------------------------------------------------
(* random_commit *)

NoEligibleMessage == "No non-merge commits found in repository"
SelectContext == "Failed to select random commit"

\* line 39-40: self.repo.revwalk()? and revwalk.push_head()?
WalkStarts(hd, f) == ~f.revwalk /\ hd # NoHead

\* an adapter that stops at the first failed item: .map_while(|oid| oid.ok())
RECURSIVE FilterMapOk_StopAtErr(_)
FilterMapOk_StopAtErr(items) ==
    IF items = <<>> \/ ~Head(items).ok THEN <<>>
    ELSE <<Head(items).oid>> \o FilterMapOk_StopAtErr(Tail(items))

\* line 43: .filter_map(|oid| oid.ok())
FilterMapOk(items) ==
    LET oks == SelectSeq(items, LAMBDA it : it.ok)
    IN  [i \in 1..Len(oks) |-> oks[i].oid]

\* a filter that lets a two-parent merge through
IsNonMerge_AllowTwo(n) == n <= 2

\* a filter that wants exactly one parent, dropping root commits
IsNonMerge_ExcludeRoots(n) == n = 1

\* line 47: |c| c.parent_count() <= 1
IsNonMerge(n) == n <= 1

\* a closure that keeps a commit whose lookup failed: unwrap_or(true)
KeepCommit_UnwrapOrTrue(db, oid, f) ==
    IF oid \in f.lookup THEN TRUE ELSE IsNonMerge(ParentCount(db, oid))

\* line 44-49: the filter's closure; a failed lookup is unwrap_or(false)
KeepCommit(db, oid, f) ==
    IF oid \in f.lookup THEN FALSE ELSE IsNonMerge(ParentCount(db, oid))

\* line 42-50
NonMergeCommits(db, hd, f) ==
    SelectSeq(FilterMapOk(Revwalk(db, hd, f)), LAMBDA oid : KeepCommit(db, oid, f))

\* an emptiness check that never fires
IsEmpty_Never(list) == FALSE

\* line 52: non_merge_commits.is_empty()
IsEmpty(list) == Len(list) = 0

\* line 56-57: SliceRandom::choose, rng being the generator's draw from
\* 0..len for a slice of length len
Choose(list, rng) ==
    IF Len(list) = 0 THEN [some |-> FALSE, val |-> NoHead]
    ELSE [some |-> TRUE, val |-> list[rng + 1]]

\* a failed lookup of the chosen commit reported as a failed selection
Resolve_AsSelection(db, oid, f, now) ==
    IF f.final
    THEN Err("SelectionError", "Failed to select random commit", LibraryError)
    ELSE Ok(extract_metadata(db, oid, now))

\* line 60-61: find_commit(*oid)? and the metadata of what it found
Resolve(db, oid, f, now) ==
    IF f.final
    THEN Err("LookupError", NoContext, LibraryError)
    ELSE Ok(extract_metadata(db, oid, now))

\* the library failures one call can meet: at most MaxFaults of them, each at
\* a step the call gets to (a lookup only of an item the walk yielded, the
\* final lookup only of a chosen commit)
FaultCount(f) ==
    (IF f.revwalk THEN 1 ELSE 0) + Cardinality(f.walk) + Cardinality(f.lookup)
        + (IF f.final THEN 1 ELSE 0)

\* the failures up to the end of the filter (line 39-50)
FaultChoices(db, hd) ==
    LET reach == IF hd = NoHead THEN {} ELSE Ancestors(db, hd)
        few(S) == {x \in SUBSET S : Cardinality(x) <= MaxFaults}
        inWalk == UNION {{[NoFaults EXCEPT !.walk = w, !.lookup = l] :
                              l \in few(reach \ w)} : w \in few(reach)}
    IN  {f \in inWalk \cup {[NoFaults EXCEPT !.revwalk = TRUE]} :
            FaultCount(f) <= MaxFaults}

\* with them, whether the lookup of the chosen commit fails (line 60)
FinalChoices(f) ==
    {[f EXCEPT !.final = fin] :
        fin \in IF FaultCount(f) < MaxFaults THEN BOOLEAN ELSE {FALSE}}

\* the draws gen_range(0..len) can make for a slice of length len
RngValues(len) == IF len = 0 THEN {0} ELSE 0..(len - 1)

\* one way a call went: what it returned, the Vec it collected, the failures it met
Run(res, list, f) == [result |-> res, list |-> list, faults |-> f]

\* every way one call of random_commit can go, over the failures it can meet,
\* what the generator draws and what the clock reads
random_commit(db, hd) ==
    UNION {
        IF ~WalkStarts(hd, f)
        THEN {Run(Err("WalkInitError", NoContext, LibraryError), <<>>, f)}
        ELSE LET list == NonMergeCommits(db, hd, f)
             IN  IF IsEmpty(list)
                 THEN {Run(Err("NoEligibleCommitsError", NoEligibleMessage, NoCause), list, f)}
                 ELSE UNION {
                     LET oid == Choose(list, rng)
                     IN  IF ~oid.some
                         THEN {Run(Err("SelectionError", SelectContext, NoCause), list, f)}
                         ELSE {Run(Resolve(db, oid.val, g, now), list, g) :
                                  g \in FinalChoices(f), now \in NowValues}
                     : rng \in RngValues(Len(list))}
        : f \in FaultChoices(db, hd)}

----------------------------------------------------------------------------
(* The state machine *)

Init ==
    /\ objects \in Databases
    /\ head \in Heads(objects)
    /\ accessor = "none"
    /\ call = [op |-> "none", arg |-> <<>>]
    /\ result = NoResult
    /\ non_merge_commits = <<>>
    /\ faults = NoFaults

Open ==
    \E path \in Paths :
        /\ call' = [op |-> "open", arg |-> <<>>]
        /\ result' = open(path)
        /\ accessor' = IF result'.ok THEN "open" ELSE accessor
        /\ non_merge_commits' = <<>>
        /\ faults' = NoFaults
        /\ UNCHANGED <<objects, head>>

GetCommit ==
    \E hash \in Specifiers :
        /\ accessor = "open"
        /\ call' = [op |-> "get_commit", arg |-> hash]
        /\ result' \in {get_commit(objects, head, hash, now) : now \in NowValues}
        /\ non_merge_commits' = <<>>
        /\ faults' = NoFaults
        /\ UNCHANGED <<objects, head, accessor>>

RandomCommit ==
    \E run \in random_commit(objects, head) :
        /\ accessor = "open"
        /\ call' = [op |-> "random_commit", arg |-> <<>>]
        /\ result' = run.result
        /\ non_merge_commits' = run.list
        /\ faults' = run.faults
        /\ UNCHANGED <<objects, head, accessor>>

Next == Open \/ GetCommit \/ RandomCommit

Spec == Init /\ [][Next]_vars

----------------------------------------------------------------------------
(* What the claims speak of, read off the repository itself *)

IsCommit(c) == c \in Oids /\ objects[c].kind = "commit"
Parents(c) == objects[c].parents

\* the full canonical hash of object c as a string of digits
FullHash(c) == <<HexDigits[(c \div Base) + 1], HexDigits[(c % Base) + 1]>>

\* commits reachable from HEAD: the least set holding HEAD and closed under parents
RECURSIVE ParentClosure(_, _)
ParentClosure(S, n) ==
    IF n = 0 THEN S
    ELSE ParentClosure(S \cup UNION {Parents(c) : c \in S}, n - 1)

ReachableFromHead ==
    IF head = NoHead THEN {} ELSE ParentClosure({head}, NObj)

IsMerge(c) == Cardinality(Parents(c)) >= 2

\* reachable commits with at most one parent
NonMergeReachable == {c \in ReachableFromHead : ~IsMerge(c)}

\* the commits the last call's library failures hid from the filter
Skipped == faults.walk \cup faults.lookup

Elements(list) == {list[i] : i \in 1..Len(list)}

CalledRandom == call.op = "random_commit"
CalledGet == call.op = "get_commit"

\* the walk of the last random_commit call started
WalkStarted == CalledRandom /\ ~faults.revwalk /\ head # NoHead

\* specifier spec names object o: HEAD, or a prefix of the hash of o and of no other
Names(spec, o) ==
    \/ spec = HeadSpec /\ head # NoHead /\ o = head
    \/ /\ spec # HeadSpec
       /\ Len(spec) >= 1
       /\ \A i \in 1..Len(spec) : \E d \in 1..Base : spec[i] = HexDigits[d]
       /\ \A x \in Oids : (Len(spec) <= Len(FullHash(x)) /\
                           \A i \in 1..Len(spec) : FullHash(x)[i] = spec[i]) <=> x = o

\* object a peels to commit c: a chain of tags from a ends at the commit c
PeelsTo(a, c) ==
    \E n \in 1..NObj : \E p \in [1..n -> Oids] :
        /\ p[1] = a /\ p[n] = c /\ IsCommit(c)
        /\ \A i \in 1..(n - 1) : objects[p[i]].kind = "tag" /\ objects[p[i]].target = p[i + 1]

----------------------------------------------------------------------------
(* C1 *)

\* C1: whenever random_commit returns successfully, the returned hash is the
\* full hash of a commit reachable from HEAD with at most one parent; it is
\* never the hash of a merge commit.
C1_NeverMerge ==
    (CalledRandom /\ result.ok) =>
        \E c \in ReachableFromHead :
            /\ result.meta.hash = FullHash(c)
            /\ IsCommit(c)
            /\ Cardinality(Parents(c)) <= 1

\* a successful random_commit on a history that holds a merge commit
C1_Witness ==
    /\ CalledRandom /\ result.ok
    /\ \E m \in ReachableFromHead : IsMerge(m)
    /\ Cardinality(NonMergeReachable) >= 2

----------------------------------------------------------------------------
(* C2 *)

\* C2: when the walk from HEAD starts but every reachable commit is a merge
\* commit or is hidden from the filter by a failure, random_commit fails with
\* NoEligibleCommitsError ("No non-merge commits found") and returns no metadata.
C2_EmptyIsNoEligible ==
    (WalkStarted /\ NonMergeReachable \subseteq Skipped) =>
        /\ ~result.ok
        /\ result.kind = "NoEligibleCommitsError"
        /\ result.context = "No non-merge commits found in repository"
        /\ result.meta = NoMeta

\* a walk over a history with a merge commit whose non-merge commits were all hidden
C2_Witness ==
    /\ WalkStarted
    /\ \E m \in ReachableFromHead : IsMerge(m) /\ m \notin Skipped
    /\ NonMergeReachable \subseteq Skipped
    /\ result.kind = "NoEligibleCommitsError"

----------------------------------------------------------------------------
(* C3 *)

\* C3: when get_commit succeeds, the hash it returns is the full canonical hash
\* of the commit that the specifier's object peels to: not the hash of a tag on
\* the way, not the abbreviated input.
C3_FullHashOfPeeled ==
    (CalledGet /\ result.ok) =>
        \E o \in Oids, c \in Oids :
            /\ Names(call.arg, o)
            /\ PeelsTo(o, c)
            /\ result.meta.hash = FullHash(c)

\* an abbreviated hash of an annotated tag, resolved to the tagged commit
C3_Witness ==
    /\ CalledGet /\ result.ok
    /\ Len(call.arg) = 1
    /\ \E o \in Oids : Names(call.arg, o) /\ objects[o].kind = "tag"

----------------------------------------------------------------------------
(* C4 *)

\* C4: get_commit fails with CommitResolutionError exactly when the specifier
\* names no object and with NotACommitError exactly when it names an object
\* that peels to no commit; the two errors differ and carry no metadata.
C4_FailureByStage ==
    CalledGet =>
        LET named == {o \in Oids : Names(call.arg, o)}
            resolution == ~result.ok /\ result.context = "Invalid commit hash or commit not found"
            notCommit == ~result.ok /\ result.context = "Object is not a commit"
        IN  /\ resolution <=> named = {}
            /\ notCommit <=> (named # {} /\ \A o \in named : \A c \in Oids : ~PeelsTo(o, c))
            /\ resolution <=> result.kind = "CommitResolutionError"
            /\ notCommit <=> result.kind = "NotACommitError"
            /\ ~(resolution /\ notCommit)
            /\ ~result.ok => result.meta = NoMeta

\* a tag of a tree named by its hash: resolution succeeds, the peel fails
C4_Witness ==
    /\ CalledGet
    /\ result.kind = "NotACommitError"
    /\ \E o \in Oids : Names(call.arg, o) /\ objects[o].kind = "tag"

----------------------------------------------------------------------------
(* C5 *)

ListedFailures == {"WalkInitError", "NoEligibleCommitsError", "SelectionError"}

\* C5 as claimed: random_commit fails only with WalkInitError,
\* NoEligibleCommitsError or SelectionError, and whenever the walk starts and
\* the eligible set is not empty it returns the metadata of the chosen commit.
C5_OnlyListedFailures ==
    CalledRandom =>
        /\ ~result.ok => result.kind \in ListedFailures
        /\ (WalkStarted /\ non_merge_commits # <<>>) =>
              /\ result.ok
              /\ \E c \in Elements(non_merge_commits) : result.meta.hash = FullHash(c)

\* C5 as amended: random_commit fails with WalkInitError, NoEligibleCommitsError
\* or SelectionError, or with the library's error when the lookup of the chosen
\* commit fails; whenever the walk starts, the eligible set is not empty and
\* that lookup succeeds, it returns the metadata of a commit of the eligible set.
C5_FailuresWithLookup ==
    CalledRandom =>
        /\ ~result.ok => result.kind \in ListedFailures \cup {"LookupError"}
        /\ result.kind = "LookupError" <=> faults.final
        /\ (WalkStarted /\ non_merge_commits # <<>> /\ ~faults.final) =>
              /\ result.ok
              /\ \E c \in Elements(non_merge_commits) : result.meta.hash = FullHash(c)

\* a call whose filter met a failed lookup and which still returned a commit
C5_Witness ==
    /\ WalkStarted /\ faults.lookup # {} /\ ~faults.final
    /\ non_merge_commits # <<>>
    /\ result.ok

----------------------------------------------------------------------------
(* C6 *)

\* the hashes random_commit, called now, can return
CanReturn ==
    {run.result.meta.hash : run \in {r \in random_commit(objects, head) : r.result.ok}}

\* C6: the commits random_commit can return are exactly the commits reachable
\* from HEAD with at most one parent, root commits included: each of them is a
\* possible outcome of a call and nothing else is.
C6_OutcomesAreEligibleSet ==
    accessor = "open" => CanReturn = {FullHash(c) : c \in NonMergeReachable}

\* a call that returned a root commit where another commit could have been returned
C6_Witness ==
    /\ CalledRandom /\ result.ok
    /\ \E c \in NonMergeReachable : Parents(c) = {} /\ result.meta.hash = FullHash(c)
    /\ \E d \in NonMergeReachable : result.meta.hash # FullHash(d) /\ FullHash(d) \in CanReturn

----------------------------------------------------------------------------
(* C7 *)

\* C7: every failure of open, get_commit and random_commit reaches the caller
\* with a human-readable context message; none is the bare library error.
C7_EveryFailureHasContext ==
    (call.op # "none" /\ ~result.ok) => result.context # ""

----------------------------------------------------------------------------
(* C8 *)

AllWhitespace(s) == \A i \in 1..Len(s) : s[i] \in Whitespace

\* t is s without its leading and trailing whitespace
IsTrimOf(t, s) ==
    /\ t = <<>> \/ (t[1] \notin Whitespace /\ t[Len(t)] \notin Whitespace)
    /\ \E i \in 0..Len(s) : \E j \in i..Len(s) :
          /\ AllWhitespace(SubSeq(s, 1, i))
          /\ t = SubSeq(s, i + 1, j)
          /\ AllWhitespace(SubSeq(s, j + 1, Len(s)))

\* C8: the metadata returned by get_commit or random_commit is read from the
\* commit its hash names: author is the commit's author name, or "Unknown" when
\* it has none; date is the author time, or the current time when that time is
\* not representable; message is the commit's message without leading and
\* trailing whitespace, empty when the commit has none.
C8_FieldsFromCommit ==
    ((CalledGet \/ CalledRandom) /\ result.ok) =>
        \E c \in Oids :
            /\ IsCommit(c)
            /\ result.meta.hash = FullHash(c)
            /\ result.meta.author =
                  (IF objects[c].name.some THEN objects[c].name.val ELSE "Unknown")
            /\ result.meta.date.nanos = 0
            /\ IF objects[c].when \in ChronoRange
               THEN result.meta.date.secs = objects[c].when
               ELSE result.meta.date.secs \in NowValues
            /\ IsTrimOf(result.meta.message,
                        IF objects[c].message.some THEN objects[c].message.val ELSE <<>>)

\* metadata of a commit with no author name, an unrepresentable time and a
\* message wrapped in whitespace
C8_Witness ==
    /\ (CalledGet \/ CalledRandom) /\ result.ok
    /\ result.meta.author = "Unknown"
    /\ result.meta.date.secs \in NowValues
    /\ result.meta.message = <<"a", " ", "b">>

----------------------------------------------------------------------------
(* C9 *)

\* C9: in random_commit's filter a failed lookup, or a failed item of the walk,
\* removes only that commit: the eligible set is every other reachable commit
\* with at most one parent, and the call goes on to draw its result from it.
C9_FailureSkipsOneCommit ==
    WalkStarted =>
        /\ Elements(non_merge_commits) = NonMergeReachable \ Skipped
        /\ (NonMergeReachable \ Skipped # {} /\ ~faults.final) =>
              /\ result.ok
              /\ \E c \in NonMergeReachable \ Skipped : result.meta.hash = FullHash(c)

\* a walk that lost an item to a failure and still returned a commit that
\* comes after it
C9_Witness ==
    /\ WalkStarted /\ result.ok
    /\ \E x \in faults.walk : \E c \in NonMergeReachable :
          c < x /\ result.meta.hash = FullHash(c)

----------------------------------------------------------------------------
(* C10 *)

\* C10: no call ends in SelectionError: a selection is made only from a
\* non-empty eligible set, and it yields a member of that set.
C10_SelectionNeverFails ==
    /\ result.kind # "SelectionError"
    /\ (CalledRandom /\ non_merge_commits = <<>>) => ~result.ok
    /\ (CalledRandom /\ result.ok) =>
          \E i \in 1..Len(non_merge_commits) :
              result.meta.hash = FullHash(non_merge_commits[i])

\* a selection among several eligible commits that returned the last of them
C10_Witness ==
    /\ CalledRandom /\ result.ok
    /\ Len(non_merge_commits) >= 2
    /\ result.meta.hash = FullHash(non_merge_commits[Len(non_merge_commits)])

====
